---------------------------- MODULE Spec2Model ----------------------------
(***************************************************************************)
(* A model of the juju charm library (src/src/lib.rs, src/src/macros.rs): *)
(* the hook dispatcher process_hooks, the command bridge run_command /    *)
(* run_command_no_args, the exit-status translation process_output, the   *)
(* structured-text parsers of config_get_all, relation_list and           *)
(* relation_ids, and the thin wrappers built on the bridge.               *)
(*                                                                         *)
(* Text is a sequence of Unicode code points, a byte buffer a sequence of *)
(* numbers 0..255; String::from_utf8 is the conversion between the two.   *)
(* One behaviour is one call of one public operation by the hosting       *)
(* program: the action draws the arguments and what the spawned process   *)
(* does, and leaves the call's observable effects in the variables.       *)
(***************************************************************************)
EXTENDS Integers, Sequences, FiniteSets, TLC

VARIABLES
    pc,         \* "ready" before the call, "done" after it
    op,         \* the public operation that was called
    input,      \* its arguments and the environment it read
    calls,      \* the bridge invocations made: [command, arg_list, as_root]
    spawned,    \* the processes spawned for them: [program, args]
    invoked,    \* the registry entries whose callback ran, in order
    result      \* the value returned (or the panic that ended the call)

vars == <<pc, op, input, calls, spawned, invoked, result>>

(***************************************************************************)
(* Bounds of the model.                                                    *)
(***************************************************************************)
MaxLen == 4         \* longest exhaustively enumerated stdout buffer
MaxLines == 2       \* most lines of a stdout buffer built from LinePool
MaxErrLen == 2      \* longest stderr buffer
MaxRegistry == 2    \* most entries of a hook registry
MaxNameLen == 1     \* longest enumerated registered hook name
MaxHookLen == 2     \* longest invocation name
MaxArgs == 2        \* most arguments of a direct bridge invocation

(***************************************************************************)
(* Characters the code names.                                              *)
(***************************************************************************)
NL == 10            \* '\n', the separator of str::lines
CR == 13            \* '\r', stripped by str::lines before '\n'
COLON == 58         \* ':'
SLASH == 47         \* '/'
PLUS == 43          \* '+', the sign usize::from_str accepts
ZERO == 48          \* '0'

(***************************************************************************)
(* Sequences.                                                              *)
(***************************************************************************)
SeqsUpTo(S, n) == UNION {[1..k -> S] : k \in 0..n}

(***************************************************************************)
(* Results: Result<T, JujuError>, Result<(), String>, or a panic.          *)
(***************************************************************************)
Ok(v) == [tag |-> "Ok", val |-> v]
Err(e) == [tag |-> "Err", err |-> e]
Panic(why) == [tag |-> "Panic", why |-> why]

\* JujuError::new(err): IoError(io::Error::new(ErrorKind::Other, err)).
\* `text` is the fixed part of the message, `msg` the text formatted into it.
JujuError_new(text, msg) ==
    [kind |-> "IoError", iokind |-> "Other", text |-> text, msg |-> msg]
\* From<io::Error>: the error of a process that could not be spawned.
From_io_Error(iokind) ==
    [kind |-> "IoError", iokind |-> iokind, text |-> "", msg |-> <<>>]
\* From<FromUtf8Error>
From_FromUtf8Error == [kind |-> "FromUtf8Error"]
\* From<ParseIntError>
From_ParseIntError == [kind |-> "ParseIntError"]

(***************************************************************************)
(* String::from_utf8: the text of a byte buffer, or a FromUtf8Error.       *)
(***************************************************************************)
IsCont(b) == b >= 128 /\ b <= 191

\* The number of bytes of the sequence that starts at bytes[i], 0 if none
\* is well-formed there (RFC 3629: no overlong forms, no surrogates, no
\* code point above U+10FFFF).
Utf8Width(bytes, i) ==
    LET b == bytes[i]
        n == Len(bytes)
        c(k) == IF i + k <= n THEN bytes[i + k] ELSE 0
    IN  IF b < 128 THEN 1
        ELSE IF b >= 194 /\ b <= 223
            THEN IF IsCont(c(1)) THEN 2 ELSE 0
        ELSE IF b >= 224 /\ b <= 239
            THEN IF /\ IsCont(c(1)) /\ IsCont(c(2))
                    /\ (b = 224 => c(1) >= 160)
                    /\ (b = 237 => c(1) <= 159)
                 THEN 3 ELSE 0
        ELSE IF b >= 240 /\ b <= 244
            THEN IF /\ IsCont(c(1)) /\ IsCont(c(2)) /\ IsCont(c(3))
                    /\ (b = 240 => c(1) >= 144)
                    /\ (b = 244 => c(1) <= 143)
                 THEN 4 ELSE 0
        ELSE 0

Utf8CodePoint(bytes, i, w) ==
    IF w = 1 THEN bytes[i]
    ELSE IF w = 2 THEN (bytes[i] - 192) * 64 + (bytes[i + 1] - 128)
    ELSE IF w = 3 THEN (bytes[i] - 224) * 4096 + (bytes[i + 1] - 128) * 64
                       + (bytes[i + 2] - 128)
    ELSE (bytes[i] - 240) * 262144 + (bytes[i + 1] - 128) * 4096
         + (bytes[i + 2] - 128) * 64 + (bytes[i + 3] - 128)

RECURSIVE Utf8From(_, _)
Utf8From(bytes, i) ==
    IF i > Len(bytes) THEN Ok(<<>>)
    ELSE LET w == Utf8Width(bytes, i)
         IN  IF w = 0 THEN Err(From_FromUtf8Error)
             ELSE LET rest == Utf8From(bytes, i + w)
                  IN  IF rest.tag = "Err" THEN rest
                      ELSE Ok(<<Utf8CodePoint(bytes, i, w)>> \o rest.val)

\* A buffer of ASCII bytes is its own text.
from_utf8(bytes) ==
    IF \A i \in 1..Len(bytes) : bytes[i] < 128 THEN Ok(bytes)
    ELSE Utf8From(bytes, 1)

(***************************************************************************)
(* str::trim, str::lines, str::split, str::contains, usize::from_str.      *)
(***************************************************************************)
\* char::is_whitespace (the White_Space property).
WhiteSpace == {9, 10, 11, 12, 13, 32, 133, 160, 5760, 8232, 8233, 8239, 8287, 12288}
                  \cup (8192..8202)

RECURSIVE TrimStart(_)
TrimStart(s) ==
    IF s # <<>> /\ Head(s) \in WhiteSpace THEN TrimStart(Tail(s)) ELSE s

RECURSIVE TrimEnd(_)
TrimEnd(s) ==
    IF s # <<>> /\ s[Len(s)] \in WhiteSpace
    THEN TrimEnd(SubSeq(s, 1, Len(s) - 1)) ELSE s

trim(s) == TrimEnd(TrimStart(s))

\* s.split(d): the segments between the occurrences of d; always at least one.
split(s, d) ==
    LET at == {i \in 1..Len(s) : s[i] = d}
        \* the position of the k-th delimiter; 0 and Len(s) + 1 bracket them
        pos(k) == IF k = 0 THEN 0
                  ELSE IF k > Cardinality(at) THEN Len(s) + 1
                  ELSE CHOOSE i \in at : Cardinality({j \in at : j < i}) = k - 1
    IN  [k \in 1..(Cardinality(at) + 1) |-> SubSeq(s, pos(k - 1) + 1, pos(k) - 1)]

\* s.lines(): the text between the '\n's; a '\r' right before a '\n' is not
\* part of the line, and the text after the last '\n' is a line only when it
\* is not empty.
StripCR(l) ==
    IF l # <<>> /\ l[Len(l)] = CR THEN SubSeq(l, 1, Len(l) - 1) ELSE l

lines(s) ==
    LET parts == split(s, NL)
        n == Len(parts)
        kept == IF parts[n] = <<>> THEN SubSeq(parts, 1, n - 1) ELSE parts
    IN  [i \in 1..Len(kept) |-> IF i < n THEN StripCR(kept[i]) ELSE kept[i]]

\* A mutant of contains: the roles of the two texts exchanged.
contains_reversed(hay, needle) ==
    \E i \in 1..(Len(needle) + 1) :
        /\ i + Len(hay) - 1 <= Len(needle)
        /\ SubSeq(needle, i, i + Len(hay) - 1) = hay

\* hay.contains(needle): needle occurs in hay as a contiguous substring.
contains(hay, needle) ==
    \E i \in 1..(Len(hay) + 1) :
        /\ i + Len(needle) - 1 <= Len(hay)
        /\ SubSeq(hay, i, i + Len(needle) - 1) = needle

IsDigit(c) == c >= ZERO /\ c <= ZERO + 9

\* usize::MAX = 18446744073709551615 (64-bit target), as decimal digits.
UsizeMaxDigits == <<1, 8, 4, 4, 6, 7, 4, 4, 0, 7, 3, 7, 0, 9, 5, 5, 1, 6, 1, 5>>

\* ds without its leading zeros (one digit is always left).
StripZeros(ds) ==
    LET nz == {i \in 1..Len(ds) : ds[i] # 0 \/ i = Len(ds)}
        first == CHOOSE i \in nz : \A j \in nz : i <= j
    IN  SubSeq(ds, first, Len(ds))

\* a <= b for digit strings of equal length
DigitsLeq(a, b) ==
    \/ a = b
    \/ \E i \in 1..Len(a) : a[i] < b[i] /\ \A j \in 1..(i - 1) : a[j] = b[j]

\* The checked multiply-and-add of from_str_radix does not overflow.
FitsUsize(ds) ==
    LET n == StripZeros(ds)
    IN  \/ Len(n) < Len(UsizeMaxDigits)
        \/ Len(n) = Len(UsizeMaxDigits) /\ DigitsLeq(n, UsizeMaxDigits)

RECURSIVE Horner(_, _)
Horner(ds, acc) ==
    IF ds = <<>> THEN acc ELSE Horner(Tail(ds), acc * 10 + Head(ds))

\* s.parse::<usize>(): an optional '+', then one or more decimal digits whose
\* value fits a usize; anything else is a ParseIntError.
parse_usize(s) ==
    LET body == IF s # <<>> /\ Head(s) = PLUS THEN Tail(s) ELSE s
        ds == [i \in 1..Len(body) |-> body[i] - ZERO]
    IN  IF body = <<>> THEN Err(From_ParseIntError)
        ELSE IF \E i \in 1..Len(body) : ~IsDigit(body[i])
            THEN Err(From_ParseIntError)
        ELSE IF ~FitsUsize(ds) THEN Err(From_ParseIntError)
        ELSE Ok(Horner(ds, 0))


\* n.to_string(): the decimal digits of a natural number.
RECURSIVE Digits(_)
Digits(n) == IF n < 10 THEN <<n>> ELSE Append(Digits(n \div 10), n % 10)

(***************************************************************************)
(* The command bridge.  A process behaves as the environment decides:      *)
(* proc.spawn_err is "" when it could be spawned and waited for, else the  *)
(* io::ErrorKind; proc.success is `exit status zero`.                      *)
(***************************************************************************)
\* The std::process::Command that run_command builds.
run_command(command, arg_list, as_root) ==
    IF as_root
    THEN [program |-> "sudo", args |-> <<command>> \o arg_list]
    ELSE [program |-> command, args |-> arg_list]

\* The std::process::Command that run_command_no_args builds.
run_command_no_args(command, as_root) ==
    IF as_root
    THEN [program |-> "sudo", args |-> <<>>]
    ELSE [program |-> command, args |-> <<>>]

\* try!(cmd.output()): the Output of the process, or the io::Error.
cmd_output(proc) ==
    IF proc.spawn_err # "" THEN Err(From_io_Error(proc.spawn_err))
    ELSE Ok([success |-> proc.success, stdout |-> proc.stdout,
             stderr |-> proc.stderr])

\* One bridge invocation: what was asked, what was spawned, what came back.
Bridge(command, arg_list, as_root) ==
    [calls |-> <<[command |-> command, arg_list |-> arg_list,
                  as_root |-> as_root]>>,
     spawned |-> <<run_command(command, arg_list, as_root)>>]

BridgeNoArgs(command, as_root) ==
    [calls |-> <<[command |-> command, arg_list |-> <<>>,
                  as_root |-> as_root]>>,
     spawned |-> <<run_command_no_args(command, as_root)>>]

\* A mutant of process_output: stderr is decoded lossily, every byte that is
\* not ASCII becoming U+FFFD, so that no decode failure is ever reported.
process_output_lossy(output) ==
    IF output.success THEN Ok(0)
    ELSE Err(JujuError_new("",
             [i \in 1..Len(output.stderr) |->
                 IF output.stderr[i] < 128 THEN output.stderr[i] ELSE 65533]))

process_output(output) ==
    IF output.success THEN Ok(0)
    ELSE LET text == from_utf8(output.stderr)
         IN  IF text.tag = "Err" THEN text
             ELSE Err(JujuError_new("", text.val))

\* let output = try!(run...); return process_output(output);
StatusOf(b, proc) ==
    LET out == cmd_output(proc)
    IN  [calls |-> b.calls, spawned |-> b.spawned,
         result |-> IF out.tag = "Err" THEN out ELSE process_output(out.val)]

\* let output = try!(run...); let value = try!(String::from_utf8(output.stdout));
\* return Ok(value) or Ok(value.trim().to_string())
ValueOf(b, proc, trimmed) ==
    LET out == cmd_output(proc)
        text == from_utf8(out.val.stdout)
    IN  [calls |-> b.calls, spawned |-> b.spawned,
         result |-> IF out.tag = "Err" THEN out
                    ELSE IF text.tag = "Err" THEN text
                    ELSE IF trimmed THEN Ok(trim(text.val))
                    ELSE Ok(text.val)]

(***************************************************************************)
(* The wrappers.                                                           *)
(***************************************************************************)
\* log ignores the result of the call and returns nothing.
log(msg) ==
    LET b == Bridge("juju-log", <<msg>>, FALSE)
    IN  [calls |-> b.calls, spawned |-> b.spawned, result |-> Ok(<<>>)]

reboot(proc) == StatusOf(BridgeNoArgs("juju-reboot", TRUE), proc)

action_get(key, proc) == ValueOf(Bridge("action-get", <<key>>, FALSE), proc, TRUE)

action_set(key, value, proc) ==
    StatusOf(Bridge("action-set", <<key \o "=" \o value>>, FALSE), proc)

action_fail(msg, proc) == StatusOf(Bridge("action-fail", <<msg>>, FALSE), proc)

unit_get_private_addr(proc) ==
    ValueOf(Bridge("unit-get", <<"private-address">>, FALSE), proc, TRUE)

unit_get_public_addr(proc) ==
    ValueOf(Bridge("unit-get", <<"public-address">>, FALSE), proc, TRUE)

config_get(key, proc) == ValueOf(Bridge("config-get", <<key>>, FALSE), proc, TRUE)

Transport_to_string(transport) == IF transport = "Tcp" THEN "tcp" ELSE "udp"

open_port(port, transport, proc) ==
    StatusOf(Bridge("open-port",
                    <<ToString(port) \o "/" \o Transport_to_string(transport)>>,
                    FALSE), proc)

close_port(port, transport, proc) ==
    StatusOf(Bridge("close-port",
                    <<ToString(port) \o "/" \o Transport_to_string(transport)>>,
                    FALSE), proc)

relation_set(key, value, proc) ==
    StatusOf(Bridge("relation-set", <<key \o "=" \o value>>, FALSE), proc)

relation_get(key, proc) ==
    ValueOf(Bridge("relation-get", <<key>>, FALSE), proc, FALSE)

relation_get_by_unit(key, unit, proc) ==
    ValueOf(Bridge("relation-get",
                   <<key, unit.name \o "/" \o ToString(unit.id)>>, FALSE),
            proc, FALSE)

StatusType_to_string(status_type) ==
    CASE status_type = "Maintenance" -> "maintenance"
      [] status_type = "Waiting" -> "waiting"
      [] status_type = "Active" -> "active"
      [] OTHER -> "blocked"

status_set(status, proc) ==
    StatusOf(Bridge("status-set",
                    <<StatusType_to_string(status.status_type), status.message>>,
                    FALSE), proc)

storage_get_location(proc) ==
    ValueOf(Bridge("storage-get", <<"location">>, FALSE), proc, FALSE)

storage_get(name, proc) ==
    ValueOf(Bridge("storage-get", <<"-s", name, "location">>, FALSE), proc, FALSE)

storage_list(proc) == ValueOf(BridgeNoArgs("storage-list", FALSE), proc, FALSE)

\* "True"
TrueText == <<84, 114, 117, 101>>

is_leader(proc) ==
    LET v == ValueOf(BridgeNoArgs("is-leader", FALSE), proc, TRUE)
    IN  [calls |-> v.calls, spawned |-> v.spawned,
         result |-> IF v.result.tag = "Err" THEN v.result
                    ELSE Ok(v.result.val = TrueText)]

(***************************************************************************)
(* config_get_all: the config-dump parser.                                 *)
(***************************************************************************)
NonEmpty(s) == s # <<>>

\* `! parts.len() == 2`: `!` binds tighter than `==`, and on a usize it is
\* the bitwise complement, usize::MAX - n.  So the test is
\* usize::MAX - n = 2, that is n + 2 = usize::MAX.
NotLenIs2(n) == Digits(n + 2) = UsizeMaxDigits

\* A mutant of the insertion: the map is emptied before each insertion.
HashMap_insert_fresh(values, k, v) == {<<k, v>>}

\* HashMap::insert on a map kept as a set of <<key, value>> pairs.
HashMap_insert(values, k, v) == {p \in values : p[1] # k} \cup {<<k, v>>}

RECURSIVE config_get_all_loop(_, _, _)
config_get_all_loop(ls, i, values) ==
    IF i > Len(ls) THEN Ok(values)
    ELSE LET parts == SelectSeq(split(ls[i], COLON), NonEmpty)
         IN  IF NotLenIs2(Len(parts))
                 THEN config_get_all_loop(ls, i + 1, values)
             ELSE IF Len(parts) < 1
                 THEN Err(JujuError_new(
                     "Unable to get key from config-get from parts: ", parts))
             ELSE IF Len(parts) < 2
                 THEN Err(JujuError_new(
                     "Unable to get value from config-get from parts: ", parts))
             ELSE config_get_all_loop(ls, i + 1,
                     HashMap_insert(values, parts[1], parts[2]))

config_get_all(proc) ==
    LET b == Bridge("config-get", <<"--all">>, FALSE)
        out == cmd_output(proc)
        text == from_utf8(out.val.stdout)
    IN  [calls |-> b.calls, spawned |-> b.spawned,
         result |-> IF out.tag = "Err" THEN out
                    ELSE IF text.tag = "Err" THEN text
                    ELSE config_get_all_loop(lines(text.val), 1, {})]

(***************************************************************************)
(* relation_list and relation_ids: the relation parsers.                   *)
(***************************************************************************)
\* for line in output_str.lines() { v = line.split(d); id = try!(v[1].parse());
\*   related_units.push(Relation{name: v[0], id: id}) }  (v[1] is the second
\* segment: indexing past the end of v panics.)
\* A mutant of the loop: each Relation is put in front of the earlier ones.
RECURSIVE relation_loop_front(_, _, _, _)
relation_loop_front(ls, d, i, related_units) ==
    IF i > Len(ls) THEN Ok(related_units)
    ELSE LET v == split(ls[i], d)
         IN  IF Len(v) < 2 THEN Panic("index out of bounds")
             ELSE LET id == parse_usize(v[2])
                  IN  IF id.tag = "Err" THEN id
                      ELSE relation_loop_front(ls, d, i + 1,
                               <<[name |-> v[1], id |-> id.val]>> \o related_units)

RECURSIVE relation_loop(_, _, _, _)
relation_loop(ls, d, i, related_units) ==
    IF i > Len(ls) THEN Ok(related_units)
    ELSE LET v == split(ls[i], d)
         IN  IF Len(v) < 2 THEN Panic("index out of bounds")
             ELSE LET id == parse_usize(v[2])
                  IN  IF id.tag = "Err" THEN id
                      ELSE relation_loop(ls, d, i + 1,
                               Append(related_units,
                                      [name |-> v[1], id |-> id.val]))

RelationsOf(command, label, d, proc) ==
    LET b == BridgeNoArgs(command, FALSE)
        out == cmd_output(proc)
        text == from_utf8(out.val.stdout)
        l == log(<<label, text.val>>)
    IN  IF out.tag = "Err"
            THEN [calls |-> b.calls, spawned |-> b.spawned, result |-> out]
        ELSE IF text.tag = "Err"
            THEN [calls |-> b.calls, spawned |-> b.spawned, result |-> text]
        ELSE [calls |-> b.calls \o l.calls, spawned |-> b.spawned \o l.spawned,
              result |-> relation_loop(lines(text.val), d, 1, <<>>)]

relation_list(proc) ==
    RelationsOf("relation-list", "relation-list output: ", SLASH, proc)

relation_ids(proc) ==
    RelationsOf("relation-ids", "relation-ids output: ", COLON, proc)

(***************************************************************************)
(* process_hooks: the hook dispatcher.                                     *)
(***************************************************************************)
\* "Warning: Unknown callback for hook "
UnknownCallbackText == <<87, 97, 114, 110, 105, 110, 103, 58, 32, 85, 110, 107, 110, 111, 119, 110, 32, 99, 97, 108, 108, 98, 97, 99, 107, 32, 102, 111, 114, 32, 104, 111, 111, 107, 32>>

\* A mutant of the dispatch loop: the `return` is missing, so every matching
\* entry's callback runs and the last one's result is kept.
RECURSIVE process_hooks_loop_all(_, _, _, _)
process_hooks_loop_all(registry, hook_name, cb_ret, i) ==
    IF i > Len(registry)
    THEN [invoked |-> <<>>, result |-> Err(UnknownCallbackText \o hook_name)]
    ELSE LET rest == process_hooks_loop_all(registry, hook_name, cb_ret, i + 1)
         IN  IF ~contains(hook_name, registry[i].name) THEN rest
             ELSE [invoked |-> <<i>> \o rest.invoked,
                   result |-> IF rest.invoked = <<>>
                              THEN cb_ret[registry[i].callback]
                              ELSE rest.result]

\* A mutant of the dispatch loop: a failed callback falls through to the
\* next matching entry.
RECURSIVE process_hooks_loop_retry(_, _, _, _)
process_hooks_loop_retry(registry, hook_name, cb_ret, i) ==
    IF i > Len(registry)
    THEN [invoked |-> <<>>, result |-> Err(UnknownCallbackText \o hook_name)]
    ELSE LET rest == process_hooks_loop_retry(registry, hook_name, cb_ret, i + 1)
             r == cb_ret[registry[i].callback]
         IN  IF ~contains(hook_name, registry[i].name) THEN rest
             ELSE IF r.tag = "Ok" \/ rest.invoked = <<>>
                 THEN [invoked |-> <<i>>, result |-> r]
             ELSE rest

\* for hook in registry { if hook_name.contains(&hook.name) { return (hook.callback)(); } }
\* return Err(format!("Warning: Unknown callback for hook {}", hook_name));
RECURSIVE process_hooks_loop(_, _, _, _)
process_hooks_loop(registry, hook_name, cb_ret, i) ==
    IF i > Len(registry)
    THEN [invoked |-> <<>>, result |-> Err(UnknownCallbackText \o hook_name)]
    ELSE IF contains(hook_name, registry[i].name)
    THEN [invoked |-> <<i>>, result |-> cb_ret[registry[i].callback]]
    ELSE process_hooks_loop(registry, hook_name, cb_ret, i + 1)

\* hook_env is what charmhelpers::core::hookenv::hook_name() returns.
process_hooks(registry, hook_env, cb_ret) ==
    LET hook_name == IF hook_env.some THEN hook_env.name ELSE <<>>
    IN  process_hooks_loop(registry, hook_name, cb_ret, 1)

(***************************************************************************)
(* hook!: the macro that builds a Hook (macros.rs).                        *)
(***************************************************************************)
\* The tokens of an invocation, each with its source text: a string literal
\* is written between two double quotes (34), the comma is 44.
StrLit(s) == [kind |-> "literal", src |-> <<34>> \o s \o <<34>>]
Ident(s) == [kind |-> "ident", src |-> s]
Comma == [kind |-> "punct", src |-> <<44>>]

\* stringify!(tokens): the source text of the token, as it is written.
stringify(tok) == tok.src

\* The value of an identifier used as an expression: the hosting program has
\* `let b = "a";` in scope of the invocation.
local_value(src) == IF src = <<98>> THEN <<97>> ELSE <<>>

\* $hook_name.to_string() of the expression arm: the text a string literal
\* denotes (what is between the quotes; the names have no escapes), or the
\* text a variable holds.
expr_to_string(tok) ==
    IF tok.kind = "literal" THEN SubSeq(tok.src, 2, Len(tok.src) - 1)
    ELSE local_value(tok.src)

\* callback: $fn_name -- the identifier names a function in scope, cb1 or cb2.
fn_item(tok) == IF tok.src = <<99, 98, 49>> THEN "cb1" ELSE "cb2"

\* ($hook_name:expr, $fn_name:ident)
matches_expr_arm(tokens) ==
    /\ Len(tokens) = 3
    /\ tokens[1].kind \in {"literal", "ident"}
    /\ tokens[2] = Comma
    /\ tokens[3].kind = "ident"

\* ($hook_name:ident $fn_name:ident)
matches_ident_arm(tokens) ==
    /\ Len(tokens) = 2
    /\ tokens[1].kind = "ident"
    /\ tokens[2].kind = "ident"

\* A mutant of the macro: the expression arm stringifies its expression as the
\* identifier arm does.
hook_stringify(tokens) ==
    IF matches_expr_arm(tokens)
    THEN [name |-> stringify(tokens[1]), callback |-> fn_item(tokens[3])]
    ELSE [name |-> stringify(tokens[1]), callback |-> fn_item(tokens[2])]

\* macro_rules! hook: the arms are tried in order; an invocation that matches
\* neither does not compile, and no such invocation is in the inputs.
hook(tokens) ==
    IF matches_expr_arm(tokens)
    THEN [name |-> expr_to_string(tokens[1]), callback |-> fn_item(tokens[3])]
    ELSE [name |-> stringify(tokens[1]), callback |-> fn_item(tokens[2])]

(***************************************************************************)
(* The inputs the calls are drawn from.                                    *)
(***************************************************************************)
\* Bytes of an enumerated stdout buffer: 'a', '1', ' ', '\n', ':', '/', and
\* 0xFF, which no UTF-8 text contains.
OutBytes == {97, 49, 32, NL, COLON, SLASH, 255}

\* Lines of a longer stdout buffer: "a: 1", "b: 2", "a: 2", "a:b:c", "a", "",
\* "a/1", "b/2", "a/x", "a:1", "b:2", "a:x", "a/007" and
\* "a/18446744073709551616" (usize::MAX + 1).
LinePool ==
    {<<97, 58, 32, 49>>,
     <<98, 58, 32, 50>>,
     <<97, 58, 32, 50>>,
     <<97, 58, 98, 58, 99>>,
     <<97>>,
     <<>>,
     <<97, 47, 49>>,
     <<98, 47, 50>>,
     <<97, 47, 120>>,
     <<97, 58, 49>>,
     <<98, 58, 50>>,
     <<97, 58, 120>>,
     <<97, 47, 48, 48, 55>>,
     <<97, 47, 49, 56, 52, 52, 54, 55, 52, 52, 48, 55, 51, 55, 48, 57, 53, 53, 49, 54, 49, 54>>}

RECURSIVE JoinLines(_)
JoinLines(ls) ==
    IF ls = <<>> THEN <<>>
    ELSE IF Len(ls) = 1 THEN Head(ls)
    ELSE Head(ls) \o <<NL>> \o JoinLines(Tail(ls))

PoolTexts ==
    {JoinLines(ls) \o e : ls \in SeqsUpTo(LinePool, MaxLines), e \in {<<>>, <<NL>>}}

\* The stdout buffers given to the parsers.
Texts == SeqsUpTo(OutBytes, MaxLen) \cup PoolTexts

\* The stdout buffers given to the other value-returning wrappers; the last
\* five are "True", "False", "True\n", " True" and "true".
ValueTexts ==
    SeqsUpTo({97, 32, NL, 255}, MaxLen - 1) \cup
    {TrueText, <<70, 97, 108, 115, 101>>, <<84, 114, 117, 101, 10>>, <<32, 84, 114, 117, 101>>, <<116, 114, 117, 101>>}

\* The stderr buffers: 'e', the two bytes of U+00E9, and 0xFF.
ErrBufs == SeqsUpTo({101, 195, 169, 255}, MaxErrLen)

SpawnErrs == {"NotFound", "PermissionDenied"}

ProcsOf(outs, errs) ==
    [spawn_err : {""}, success : BOOLEAN, stdout : outs, stderr : errs]
        \cup [spawn_err : SpawnErrs, success : {FALSE}, stdout : {<<>>},
              stderr : {<<>>}]

ParserProcs == ProcsOf(Texts, {<<>>}) \cup ProcsOf({<<>>, <<97>>}, ErrBufs)
ValueProcs == ProcsOf(ValueTexts, {<<>>, <<101>>})
StatusProcs == ProcsOf({<<>>, <<97>>}, ErrBufs)

Keys == {"k1", "k2"}
Values == {"v1"}
Messages == {"m1", "m2"}
Ports == {80, 65535}
Transports == {"Tcp", "Udp"}
StatusTypes == {"Maintenance", "Waiting", "Active", "Blocked"}
Units == [name : {"u"}, id : {0, 7}]
Commands == {"juju-reboot", "status-set"}
ArgLists == SeqsUpTo({"x", "y"}, MaxArgs)

\* Hook names and invocation names are texts over 'a' and 'b'.
HookChars == {97, 98}
Callbacks == {"cb1", "cb2"}
\* What a callback returns: Ok(()) or Err(String), here "e" or "f".
CallbackResults == {Ok(<<>>), Err(<<101>>), Err(<<102>>)}
\* The enumerated names, and "ab".
HookNames == SeqsUpTo(HookChars, MaxNameLen) \cup {<<97, 98>>}
Hooks == [name : HookNames, callback : Callbacks]
Registries == SeqsUpTo(Hooks, MaxRegistry)
HookEnvs ==
    [some : {TRUE}, name : SeqsUpTo(HookChars, MaxHookLen)]
        \cup {[some |-> FALSE, name |-> <<>>]}

\* The Hook literals that are also written with the macro: the names "", "a"
\* and "ab".
MacroHooks == [name : {<<>>, <<97>>, <<97, 98>>}, callback : Callbacks]

\* The identifier that names a callback: cb1 or cb2.
fn_ident(callback) ==
    IF callback = "cb1" THEN Ident(<<99, 98, 49>>) ELSE Ident(<<99, 98, 50>>)

\* A Hook literal beside a macro invocation written for it: hook!("name", f)
\* for every name, hook!(b, f) for the name the variable b holds, and
\* hook!(name f) for a name that is an identifier.
HookInvocations ==
    {[literal |-> h,
      tokens |-> <<StrLit(h.name), Comma, fn_ident(h.callback)>>] :
        h \in MacroHooks}
    \cup {[literal |-> h,
           tokens |-> <<Ident(<<98>>), Comma, fn_ident(h.callback)>>] :
        h \in {g \in MacroHooks : g.name = local_value(<<98>>)}}
    \cup {[literal |-> h,
           tokens |-> <<Ident(h.name), fn_ident(h.callback)>>] :
        h \in {g \in MacroHooks : g.name # <<>>}}

(***************************************************************************)
(* The state machine: the hosting program makes one call.                  *)
(***************************************************************************)
Init ==
    /\ pc = "ready"
    /\ op = "none"
    /\ input = <<>>
    /\ calls = <<>>
    /\ spawned = <<>>
    /\ invoked = <<>>
    /\ result = Ok(<<>>)

\* A wrapper was called with `in` and did `r`.
Call(name, in, r) ==
    /\ pc' = "done"
    /\ op' = name
    /\ input' = in
    /\ calls' = r.calls
    /\ spawned' = r.spawned
    /\ invoked' = <<>>
    /\ result' = r.result

ProcessHooks ==
    /\ pc = "ready"
    /\ \E registry \in Registries, hook_env \in HookEnvs,
       cb_ret \in [Callbacks -> CallbackResults] :
        LET r == process_hooks(registry, hook_env, cb_ret)
        IN  /\ pc' = "done"
            /\ op' = "process_hooks"
            /\ input' = [registry |-> registry, hook_env |-> hook_env,
                         cb_ret |-> cb_ret]
            /\ calls' = <<>>
            /\ spawned' = <<>>
            /\ invoked' = r.invoked
            /\ result' = r.result

\* The hosting program builds its registry with hook! and dispatches on it.
HookMacro ==
    /\ pc = "ready"
    /\ \E written \in SeqsUpTo(HookInvocations, MaxRegistry),
          hook_env \in HookEnvs,
          cb_ret \in [Callbacks -> {Ok(<<>>), Err(<<101>>)}] :
        LET registry == [i \in 1..Len(written) |-> hook(written[i].tokens)]
            r == process_hooks(registry, hook_env, cb_ret)
        IN  /\ pc' = "done"
            /\ op' = "hook!"
            /\ input' = [written |-> written, registry |-> registry,
                         hook_env |-> hook_env, cb_ret |-> cb_ret]
            /\ calls' = <<>>
            /\ spawned' = <<>>
            /\ invoked' = r.invoked
            /\ result' = r.result

\* A direct invocation of the bridge, with or without arguments.
Invoke ==
    /\ pc = "ready"
    /\ \E command \in Commands, arg_list \in ArgLists, as_root \in BOOLEAN,
       proc \in StatusProcs :
        Call("run_command",
             [command |-> command, arg_list |-> arg_list, as_root |-> as_root,
              proc |-> proc],
             LET b == Bridge(command, arg_list, as_root)
             IN  [calls |-> b.calls, spawned |-> b.spawned,
                  result |-> cmd_output(proc)])

InvokeNoArgs ==
    /\ pc = "ready"
    /\ \E command \in Commands, as_root \in BOOLEAN, proc \in StatusProcs :
        Call("run_command_no_args",
             [command |-> command, as_root |-> as_root, proc |-> proc],
             LET b == BridgeNoArgs(command, as_root)
             IN  [calls |-> b.calls, spawned |-> b.spawned,
                  result |-> cmd_output(proc)])

Log ==
    /\ pc = "ready"
    /\ \E msg \in Messages : Call("log", [msg |-> msg], log(msg))

Reboot ==
    /\ pc = "ready"
    /\ \E proc \in StatusProcs : Call("reboot", [proc |-> proc], reboot(proc))

ActionGet ==
    /\ pc = "ready"
    /\ \E key \in Keys, proc \in ValueProcs :
        Call("action_get", [key |-> key, proc |-> proc], action_get(key, proc))

ActionSet ==
    /\ pc = "ready"
    /\ \E key \in Keys, value \in Values, proc \in StatusProcs :
        Call("action_set", [key |-> key, value |-> value, proc |-> proc],
             action_set(key, value, proc))

ActionFail ==
    /\ pc = "ready"
    /\ \E msg \in Messages, proc \in StatusProcs :
        Call("action_fail", [msg |-> msg, proc |-> proc], action_fail(msg, proc))

UnitGetPrivateAddr ==
    /\ pc = "ready"
    /\ \E proc \in ValueProcs :
        Call("unit_get_private_addr", [proc |-> proc], unit_get_private_addr(proc))

UnitGetPublicAddr ==
    /\ pc = "ready"
    /\ \E proc \in ValueProcs :
        Call("unit_get_public_addr", [proc |-> proc], unit_get_public_addr(proc))

ConfigGet ==
    /\ pc = "ready"
    /\ \E key \in Keys, proc \in ValueProcs :
        Call("config_get", [key |-> key, proc |-> proc], config_get(key, proc))

ConfigGetAll ==
    /\ pc = "ready"
    /\ \E proc \in ParserProcs :
        Call("config_get_all", [proc |-> proc], config_get_all(proc))

OpenPort ==
    /\ pc = "ready"
    /\ \E port \in Ports, transport \in Transports, proc \in StatusProcs :
        Call("open_port", [port |-> port, transport |-> transport, proc |-> proc],
             open_port(port, transport, proc))

ClosePort ==
    /\ pc = "ready"
    /\ \E port \in Ports, transport \in Transports, proc \in StatusProcs :
        Call("close_port", [port |-> port, transport |-> transport, proc |-> proc],
             close_port(port, transport, proc))

RelationSet ==
    /\ pc = "ready"
    /\ \E key \in Keys, value \in Values, proc \in StatusProcs :
        Call("relation_set", [key |-> key, value |-> value, proc |-> proc],
             relation_set(key, value, proc))

RelationGet ==
    /\ pc = "ready"
    /\ \E key \in Keys, proc \in ValueProcs :
        Call("relation_get", [key |-> key, proc |-> proc], relation_get(key, proc))

RelationGetByUnit ==
    /\ pc = "ready"
    /\ \E key \in Keys, unit \in Units, proc \in ValueProcs :
        Call("relation_get_by_unit", [key |-> key, unit |-> unit, proc |-> proc],
             relation_get_by_unit(key, unit, proc))

RelationList ==
    /\ pc = "ready"
    /\ \E proc \in ParserProcs :
        Call("relation_list", [proc |-> proc], relation_list(proc))

RelationIds ==
    /\ pc = "ready"
    /\ \E proc \in ParserProcs :
        Call("relation_ids", [proc |-> proc], relation_ids(proc))

StatusSet ==
    /\ pc = "ready"
    /\ \E status_type \in StatusTypes, message \in Messages, proc \in StatusProcs :
        LET status == [status_type |-> status_type, message |-> message]
        IN  Call("status_set", [status |-> status, proc |-> proc],
                 status_set(status, proc))

StorageGetLocation ==
    /\ pc = "ready"
    /\ \E proc \in ValueProcs :
        Call("storage_get_location", [proc |-> proc], storage_get_location(proc))

StorageGet ==
    /\ pc = "ready"
    /\ \E name \in Keys, proc \in ValueProcs :
        Call("storage_get", [name |-> name, proc |-> proc], storage_get(name, proc))

StorageList ==
    /\ pc = "ready"
    /\ \E proc \in ValueProcs :
        Call("storage_list", [proc |-> proc], storage_list(proc))

IsLeader ==
    /\ pc = "ready"
    /\ \E proc \in ValueProcs :
        Call("is_leader", [proc |-> proc], is_leader(proc))

Next ==
    \/ ProcessHooks
    \/ HookMacro
    \/ Invoke
    \/ InvokeNoArgs
    \/ Log
    \/ Reboot
    \/ ActionGet
    \/ ActionSet
    \/ ActionFail
    \/ UnitGetPrivateAddr
    \/ UnitGetPublicAddr
    \/ ConfigGet
    \/ ConfigGetAll
    \/ OpenPort
    \/ ClosePort
    \/ RelationSet
    \/ RelationGet
    \/ RelationGetByUnit
    \/ RelationList
    \/ RelationIds
    \/ StatusSet
    \/ StorageGetLocation
    \/ StorageGet
    \/ StorageList
    \/ IsLeader

Spec == Init /\ [][Next]_vars

(***************************************************************************)
(* The properties.                                                         *)
(***************************************************************************)
Done(o) == pc = "done" /\ op = o

\* n occurs in h: h is some text, then n, then some text.
IsSubstring(n, h) ==
    \E k \in 0..(Len(h) - Len(n)) : \A j \in 1..Len(n) : h[k + j] = n[j]

\* The invocation name of the dispatch in the current state.
InvocationName == IF input.hook_env.some THEN input.hook_env.name ELSE <<>>

\* The registry entries whose name is contained in the invocation name.
Matching ==
    {i \in 1..Len(input.registry) :
        IsSubstring(input.registry[i].name, InvocationName)}

FirstMatching == CHOOSE i \in Matching : \A j \in Matching : i <= j

\* C1: a dispatch invokes the callback of the first entry, in registration
\* order, whose name is a substring of the invocation name, exactly once, and
\* the callback of no other entry.
C1_FirstMatchOnly ==
    (Done("process_hooks") /\ Matching # {}) => invoked = <<FirstMatching>>

\* C1 happens: the first entry does not match, the second matches by
\* containment and not equality, and only the second ran.
C1_Witness ==
    /\ Done("process_hooks")
    /\ Matching = {2}
    /\ input.registry[2].name # <<>>
    /\ input.registry[2].name # InvocationName
    /\ input.registry[1].callback # input.registry[2].callback
    /\ invoked = <<2>>

\* C2: when no entry's name is contained in the invocation name (the empty
\* registry included), the dispatch fails with "unknown callback for hook
\* <name>" and no callback has run.
C2_NoMatchFails ==
    (Done("process_hooks") /\ Matching = {}) =>
        /\ invoked = <<>>
        /\ result.tag = "Err"
        /\ result.err = UnknownCallbackText \o InvocationName

\* C2 happens: a registry with entries, none of them matching.
C2_Witness ==
    /\ Done("process_hooks")
    /\ Len(input.registry) >= 2
    /\ input.hook_env.some
    /\ Len(InvocationName) >= 2
    /\ \A i \in 1..Len(input.registry) : input.registry[i].name # <<>>
    /\ Matching = {}
    /\ invoked = <<>>
    /\ result.tag = "Err"

\* C3: the result of a dispatch that matched is the result of the matched
\* callback, unchanged; a failed callback is not retried and no later entry
\* is tried.
C3_ResultUnchanged ==
    (Done("process_hooks") /\ Matching # {}) =>
        /\ result = input.cb_ret[input.registry[FirstMatching].callback]
        /\ Len(invoked) = 1

\* C3 happens: the matched callback fails, a later entry matches too and its
\* callback would have succeeded; the failure is what is returned.
C3_Witness ==
    /\ Done("process_hooks")
    /\ Cardinality(Matching) >= 2
    /\ input.registry[1].name # <<>>
    /\ input.cb_ret[input.registry[1].callback].tag = "Err"
    /\ input.cb_ret[input.registry[2].callback].tag = "Ok"
    /\ result = Err(<<101>>)

\* The process of the call could be spawned and waited for.
Ran == input.proc.spawn_err = ""

\* The process of the call ran and exited with status zero.
Succeeded == Ran /\ input.proc.success

\* The text of the process's stdout, when it is text.
StdoutText == from_utf8(input.proc.stdout)

\* The lines of the process's stdout.
StdoutLines == lines(StdoutText.val)

\* The non-empty segments of a line split on ':'.
Segments(l) == SelectSeq(split(l, COLON), NonEmpty)

\* C4: for every decodable config-dump text, config_get_all does not fail,
\* and its map holds exactly the entries of the lines with exactly two
\* non-empty segments (the last such line of a key wins); lines with zero,
\* one or more than two such segments contribute nothing.
C4_MalformedLinesSkipped ==
    (Done("config_get_all") /\ Succeeded /\ StdoutText.tag = "Ok") =>
        LET ls == StdoutLines
            kept == {i \in 1..Len(ls) : Len(Segments(ls[i])) = 2}
            last == {i \in kept : \A j \in kept :
                        j > i => Segments(ls[j])[1] # Segments(ls[i])[1]}
        IN  /\ result.tag = "Ok"
            /\ result.val = {<<Segments(ls[i])[1], Segments(ls[i])[2]>> : i \in last}

\* A `key: value` line: one colon, a key before it, a value after it.
ColonAt(l) == CHOOSE i \in 1..Len(l) : l[i] = COLON
KeyOf(l) == SubSeq(l, 1, ColonAt(l) - 1)
AfterColon(l) == SubSeq(l, ColonAt(l) + 1, Len(l))

WellFormedLine(l) ==
    /\ Cardinality({i \in 1..Len(l) : l[i] = COLON}) = 1
    /\ KeyOf(l) # <<>>
    /\ TrimStart(AfterColon(l)) # <<>>

\* The config dump of the call is N `key: value` lines with N distinct keys.
WellFormedDump ==
    /\ Done("config_get_all")
    /\ Succeeded
    /\ StdoutText.tag = "Ok"
    /\ \A i \in 1..Len(StdoutLines) : WellFormedLine(StdoutLines[i])
    /\ \A i, j \in 1..Len(StdoutLines) :
        i # j => KeyOf(StdoutLines[i]) # KeyOf(StdoutLines[j])

\* C5 as stated: a well-formed dump of N lines gives a map of N entries, the
\* key the text before the colon, the value the text after it with the
\* whitespace at the colon trimmed.
C5_TrimmedValues ==
    WellFormedDump =>
        /\ result.tag = "Ok"
        /\ result.val = {<<KeyOf(StdoutLines[i]), TrimStart(AfterColon(StdoutLines[i]))>> :
                            i \in 1..Len(StdoutLines)}

\* C5 as amended: a well-formed dump of N lines gives a map of exactly N
\* entries, the key the text before the colon, the value the whole text after
\* the colon, the whitespace that follows the colon included.
C5_UntrimmedValues ==
    WellFormedDump =>
        /\ result.tag = "Ok"
        /\ result.val = {<<KeyOf(StdoutLines[i]), AfterColon(StdoutLines[i])>> :
                            i \in 1..Len(StdoutLines)}
        /\ Cardinality(result.val) = Len(StdoutLines)

\* C5 happens: the dump "a: 1\nb: 2\n" is parsed into two entries.
C5_Witness ==
    /\ WellFormedDump
    /\ input.proc.stdout = <<97, 58, 32, 49, 10, 98, 58, 32, 50, 10>>
    /\ Cardinality(result.val) = 2

\* C6: every bridge invocation with elevate = true spawns sudo with the
\* target executable as its first argument, followed by the target's
\* arguments in order, also when there are no arguments.
C6_ElevatedRunsTargetThroughSudo ==
    \A i \in 1..Len(calls) :
        calls[i].as_root =>
            /\ spawned[i].program = "sudo"
            /\ spawned[i].args = <<calls[i].command>> \o calls[i].arg_list

\* The public operations that invoke an external subcommand and return a
\* result.
WrapperOps ==
    {"reboot", "action_get", "action_set", "action_fail",
     "unit_get_private_addr", "unit_get_public_addr", "config_get",
     "config_get_all", "open_port", "close_port", "relation_set",
     "relation_get", "relation_get_by_unit", "relation_list", "relation_ids",
     "status_set", "storage_get_location", "storage_get", "storage_list",
     "is_leader"}

\* C7: every public operation that invokes an external subcommand fails when
\* the subprocess exits non-zero, with ProcessFailure carrying the decoded
\* stderr, and returns a success value only when the subprocess exited zero.
C7_NonZeroExitFails ==
    (pc = "done" /\ op \in WrapperOps /\ Ran /\ ~input.proc.success) =>
        /\ result.tag = "Err"
        /\ from_utf8(input.proc.stderr).tag = "Ok" =>
            /\ result.err.kind = "IoError"
            /\ result.err.text = ""
            /\ result.err.msg = from_utf8(input.proc.stderr).val

\* The UTF-8 encoding of a text.
Utf8EncodeChar(c) ==
    IF c < 128 THEN <<c>>
    ELSE IF c < 2048 THEN <<192 + (c \div 64), 128 + (c % 64)>>
    ELSE IF c < 65536
        THEN <<224 + (c \div 4096), 128 + ((c \div 64) % 64), 128 + (c % 64)>>
    ELSE <<240 + (c \div 262144), 128 + ((c \div 4096) % 64),
           128 + ((c \div 64) % 64), 128 + (c % 64)>>

RECURSIVE Utf8Encode(_)
Utf8Encode(t) ==
    IF t = <<>> THEN <<>> ELSE Utf8EncodeChar(Head(t)) \o Utf8Encode(Tail(t))

\* The code points up to U+07FF whose encoding occurs in a buffer: such a
\* code point is a byte of the buffer, or the 11 bits of two adjacent bytes.
CodePointsIn(bytes) ==
    LET one == {bytes[i] : i \in 1..Len(bytes)}
        two == {(bytes[i] - 192) * 64 + (bytes[i + 1] - 128) :
                    i \in 1..(Len(bytes) - 1)}
    IN  {c \in (one \cup two) \cap (0..2047) :
            \E i \in 1..Len(bytes) :
                LET e == Utf8EncodeChar(c)
                IN  /\ i + Len(e) - 1 <= Len(bytes)
                    /\ SubSeq(bytes, i, i + Len(e) - 1) = e}

\* A buffer without a byte of a three- or four-byte sequence is text exactly
\* when it is the encoding of a sequence of code points up to U+07FF.
IsEncodedText(bytes) ==
    \E k \in 0..Len(bytes) :
        \E t \in [1..k -> CodePointsIn(bytes)] : Utf8Encode(t) = bytes

\* The operations that return process_output(output).
StatusOps ==
    {"reboot", "action_set", "action_fail", "open_port", "close_port",
     "relation_set", "status_set"}

\* C8: process_output gives Ok for every outcome with exit status zero,
\* whatever stdout and stderr hold; for a non-zero exit it fails with the
\* IoError that carries the text stderr encodes, or, when stderr is not
\* UTF-8, with the FromUtf8Error.
C8_ProcessOutput ==
    (pc = "done" /\ op \in StatusOps /\ Ran) =>
        IF input.proc.success THEN result = Ok(0)
        ELSE /\ result.tag = "Err"
             /\ \/ /\ result.err.kind = "IoError"
                   /\ result.err.iokind = "Other"
                   /\ result.err.text = ""
                   /\ Utf8Encode(result.err.msg) = input.proc.stderr
                \/ /\ result.err.kind = "FromUtf8Error"
                   /\ ~IsEncodedText(input.proc.stderr)

\* C8 happens: a process exits non-zero with the two bytes of U+00E9 on
\* stderr, and the failure carries that one character.
C8_Witness ==
    /\ Done("status_set")
    /\ Ran
    /\ ~input.proc.success
    /\ input.proc.stderr = <<195, 169>>
    /\ result = Err(JujuError_new("", <<233>>))

\* The relation parsers, and the delimiter of each.
RelationOps == {"relation_list", "relation_ids"}
Delimiter == IF op = "relation_list" THEN SLASH ELSE COLON

\* A decimal numeral of a usize.
IsId(s) ==
    /\ s # <<>>
    /\ \A i \in 1..Len(s) : IsDigit(s[i])
    /\ FitsUsize([i \in 1..Len(s) |-> s[i] - ZERO])

RECURSIVE DecimalValue(_)
DecimalValue(s) ==
    IF s = <<>> THEN 0
    ELSE 10 * DecimalValue(SubSeq(s, 1, Len(s) - 1)) + (s[Len(s)] - ZERO)

\* A line name<d>id.
IsRelationLine(l, d) == Len(split(l, d)) = 2 /\ IsId(split(l, d)[2])

\* A relation parser ran on the text of a process that exited zero.
RelationsRead ==
    /\ pc = "done"
    /\ op \in RelationOps
    /\ Succeeded
    /\ StdoutText.tag = "Ok"

\* C9: for a text whose lines are all name<d>id with a decimal id,
\* relation_list (d = '/') and relation_ids (d = ':') return one Relation per
\* line, in line order, the name the segment before the delimiter and the id
\* the number the second segment denotes; no line, no Relation.
C9_RelationsParsed ==
    (/\ RelationsRead
     /\ \A i \in 1..Len(StdoutLines) : IsRelationLine(StdoutLines[i], Delimiter)) =>
        result = Ok([i \in 1..Len(StdoutLines) |->
                        [name |-> split(StdoutLines[i], Delimiter)[1],
                         id |-> DecimalValue(split(StdoutLines[i], Delimiter)[2])]])

\* C9 happens: "a/1\nb/2\n" is parsed by relation_list.
C9_Witness ==
    /\ Done("relation_list")
    /\ Succeeded
    /\ input.proc.stdout = <<97, 47, 49, 10, 98, 47, 50, 10>>
    /\ result = Ok(<<[name |-> <<97>>, id |-> 1], [name |-> <<98>>, id |-> 2]>>)

\* C10: when the second segment of any line is not parseable as an unsigned
\* integer, relation_list and relation_ids fail with ParseIntError, wherever
\* that line is and whatever the other lines are.
C10_BadIdFailsWholeParse ==
    (/\ RelationsRead
     /\ \E i \in 1..Len(StdoutLines) :
            /\ Len(split(StdoutLines[i], Delimiter)) >= 2
            /\ parse_usize(split(StdoutLines[i], Delimiter)[2]).tag = "Err") =>
        /\ result.tag = "Err"
        /\ result.err.kind = "ParseIntError"

\* The Hook literals of the registry that was written with the macro.
Literals == [i \in 1..Len(input.written) |-> input.written[i].literal]

\* C11: each form of hook! builds the Hook that the literal Hook{name,
\* callback} is -- the name is the given name (what the string expression
\* denotes, or the identifier as written) and the callback the given function
\* -- so a dispatch on the registry built with the macro invokes what a
\* dispatch on the literals invokes and returns what it returns.
C11_MacroBuildsLiteral ==
    Done("hook!") =>
        /\ input.registry = Literals
        /\ invoked = process_hooks(Literals, input.hook_env, input.cb_ret).invoked
        /\ result = process_hooks(Literals, input.hook_env, input.cb_ret).result

\* C11 happens: the registry is hook!(ab cb1), hook!("a", cb2); the hook "a"
\* does not contain "ab" and the second entry's callback is the one that ran.
C11_Witness ==
    /\ Done("hook!")
    /\ Len(input.written) = 2
    /\ input.written[1].tokens = <<Ident(<<97, 98>>), Ident(<<99, 98, 49>>)>>
    /\ input.written[2].tokens = <<StrLit(<<97>>), Comma, Ident(<<99, 98, 50>>)>>
    /\ input.registry[2] = [name |-> <<97>>, callback |-> "cb2"]
    /\ input.hook_env = [some |-> TRUE, name |-> <<97>>]
    /\ input.cb_ret["cb2"] = Err(<<101>>)
    /\ invoked = <<2>>
    /\ result = Err(<<101>>)

\* The failures of the error type: an I/O failure, a text that does not
\* decode, a number that does not parse.
Taxonomy == {"IoError", "FromUtf8Error", "ParseIntError"}

\* C12: for every stdout that decodes, a line that is empty or has no
\* delimiter included, relation_list and relation_ids end by returning a
\* Relation sequence or a failure of one of the three kinds of the error
\* type, and in no other way.
C12_EndsInsideTaxonomy ==
    RelationsRead =>
        \/ result.tag = "Ok"
        \/ /\ result.tag = "Err"
           /\ result.err.kind \in Taxonomy

=============================================================================
